---- MODULE Spec2Model ----
(***************************************************************************)
(* A model of src/lambda/main.py: the reconciler of EventBridge rule       *)
(* dead-letter queues.  Strings are sequences of one-character strings so  *)
(* that slicing, splitting on "-" and substring tests are computed as the  *)
(* Python code computes them.  Dictionaries (targets) are functions whose  *)
(* DOMAIN is the set of keys present.                                      *)
(***************************************************************************)
EXTENDS Integers, Sequences, FiniteSets, TLC

VARIABLES
    rules,      \* bus: rule name -> ManagedBy marker, for the rules that exist
    targets,    \* bus: rule name -> sequence of target dictionaries
    queues,     \* SQS: queue name -> [policy], for the queues that exist
    envPrefix,  \* ENV_PREFIX of the deployment
    pc,         \* "idle", or "done" when an invocation has just produced its response
    last,       \* the response of that invocation, with its arguments and logged calls
    prior,      \* what the reconcile pass that completed right before left provisioned
    faulted,    \* collaborator calls that have failed so far
    codec,      \* naming codec under study: inputs and outputs
    pol         \* policy merger under study: one queue's stored policy

vars == <<rules, targets, queues, envPrefix, pc, last, prior, faulted, codec, pol>>

busVars == <<rules, targets, queues, envPrefix, pc, last, prior, faulted>>

----------------------------------------------------------------------------
(* Strings *)

\* s[:n] of Python for n >= 0 or n < 0 (a negative n counts from the end)
PySliceTo(s, n) ==
    IF n >= 0
    THEN SubSeq(s, 1, IF n < Len(s) THEN n ELSE Len(s))
    ELSE SubSeq(s, 1, IF Len(s) + n > 0 THEN Len(s) + n ELSE 0)

\* sub in s
Contains(s, sub) ==
    \E i \in 0..(Len(s) - Len(sub)) : SubSeq(s, i + 1, i + Len(sub)) = sub

\* s.endswith(sub)
EndsWith(s, sub) ==
    /\ Len(sub) <= Len(s)
    /\ SubSeq(s, Len(s) - Len(sub) + 1, Len(s)) = sub

\* s.count(ch) for a one-character ch
Count(s, ch) == Cardinality({i \in 1..Len(s) : s[i] = ch})

\* s.split(ch) for a one-character ch: empty segments are kept
Split(s, ch) ==
    LET seps == {i \in 1..Len(s) : s[i] = ch}
        \* the position of the k-th separator; 0 before the first, Len(s) + 1 after the last
        Sep(k) == IF k = 0 THEN 0
                  ELSE IF k > Cardinality(seps) THEN Len(s) + 1
                  ELSE CHOOSE i \in seps : Cardinality({j \in seps : j < i}) = k - 1
    IN  [k \in 1..(Cardinality(seps) + 1) |-> SubSeq(s, Sep(k - 1) + 1, Sep(k) - 1)]

\* ch.join(parts)
RECURSIVE Join(_, _)
Join(parts, ch) ==
    IF Len(parts) = 0 THEN <<>>
    ELSE IF Len(parts) = 1 THEN parts[1]
    ELSE parts[1] \o <<ch>> \o Join(Tail(parts), ch)

\* s.lower() on the letters the model uses
LowerChar(c) ==
    CASE c = "A" -> "a" [] c = "W" -> "w" [] c = "S" -> "s" [] OTHER -> c

Lower(s) == [i \in 1..Len(s) |-> LowerChar(s[i])]

Last(s) == s[Len(s)]

----------------------------------------------------------------------------
(* Naming codec *)

SUFFIX == <<"-", "r", "u", "l", "e", "-", "d", "l", "q">>

MAX_NAME_LEN == 80

\* a plausible slip: the dash after the prefix is not counted
generate_dlq_name_NoDash(rule_name, env_prefix) ==
    IF env_prefix # <<>>
    THEN LET max_rule_len == MAX_NAME_LEN - Len(env_prefix) - Len(SUFFIX)
             rn == IF Len(rule_name) > max_rule_len
                   THEN PySliceTo(rule_name, max_rule_len) ELSE rule_name
         IN  env_prefix \o <<"-">> \o rn \o SUFFIX
    ELSE LET max_rule_len == MAX_NAME_LEN - Len(SUFFIX)
             rn == IF Len(rule_name) > max_rule_len
                   THEN PySliceTo(rule_name, max_rule_len) ELSE rule_name
         IN  rn \o SUFFIX

generate_dlq_name(rule_name, env_prefix) ==
    IF env_prefix # <<>>
    THEN LET prefix_with_dash == env_prefix \o <<"-">>
             max_rule_len == MAX_NAME_LEN - Len(prefix_with_dash) - Len(SUFFIX)
             rn == IF Len(rule_name) > max_rule_len
                   THEN PySliceTo(rule_name, max_rule_len) ELSE rule_name
         IN  prefix_with_dash \o rn \o SUFFIX
    ELSE LET max_rule_len == MAX_NAME_LEN - Len(SUFFIX)
             rn == IF Len(rule_name) > max_rule_len
                   THEN PySliceTo(rule_name, max_rule_len) ELSE rule_name
         IN  rn \o SUFFIX

RULE_TOKEN == <<"r", "u", "l", "e">>

DLQ_TOKEN == <<"d", "l", "q">>

\* The rule name list_all_dlq_queues extracts from a queue name, as a set: empty when
\* the queue is not listed, else the one extracted name.
ExtractedRuleNames(queue_name) ==
    IF Contains(queue_name, SUFFIX) /\ Count(queue_name, "-") >= 3
    THEN LET parts == Split(queue_name, "-")
             \* range(len(parts) - 2), 0-based i, is 1..Len(parts)-2 here
             hits == {i \in 1..(Len(parts) - 2) :
                         parts[i] = RULE_TOKEN /\ parts[i + 1] = DLQ_TOKEN}
         IN  IF hits = {} THEN {}
             ELSE LET first == CHOOSE i \in hits : \A j \in hits : i <= j
                  IN  \* rule_dlq_index > 0, 0-based, is first > 1 here
                      IF first > 1
                      THEN {Join(SubSeq(parts, 2, first - 1), "-")}
                      ELSE {}
    ELSE {}

----------------------------------------------------------------------------
(* ARNs and URLs *)

BUS_ARN == <<"a", "r", "n", ":", "a", "w", "s", ":", "e", "v", "e", "n", "t", "s", ":",
             "r", ":", "1", ":", "e", "v", "e", "n", "t", "-", "b", "u", "s", "/", "b">>

EVENTS_ARN_HEAD == <<"a", "r", "n", ":", "a", "w", "s", ":", "e", "v", "e", "n", "t", "s", ":">>

RULE_SEGMENT == <<":", "r", "u", "l", "e", "/">>

get_rule_arn(rule_name, bus_arn) ==
    LET parts == Split(bus_arn, ":")
        region == parts[4]
        account_id == parts[5]
        bus_name == Last(Split(bus_arn, "/"))
    IN  EVENTS_ARN_HEAD \o region \o <<":">> \o account_id \o RULE_SEGMENT
            \o bus_name \o <<"/">> \o rule_name

\* SQS: the ARN and the URL of the queue of a name
SQS_ARN_HEAD == <<"a", "r", "n", ":", "a", "w", "s", ":", "s", "q", "s", ":", "r", ":", "1", ":">>

SQS_URL_HEAD == <<"h", "t", "t", "p", "s", ":", "/", "/", "s", "q", "s", ".", "r", "/", "1", "/">>

QueueArn(name) == SQS_ARN_HEAD \o name

QueueUrl(name) == SQS_URL_HEAD \o name

\* SQS resolves a URL to the queue of its last path segment
QueueOfUrl(url) == Last(Split(url, "/"))

----------------------------------------------------------------------------
(* Authorization policy merger *)

\* The stored Policy attribute: absent (or the empty string), a string json.loads
\* rejects, or a policy document.
EmptyPolicy == [Version |-> "2012-10-17", Statement |-> <<>>]

NoPolicy == [state |-> "absent", doc |-> EmptyPolicy]

Garbage == [state |-> "unparsable", doc |-> EmptyPolicy]

Document(doc) == [state |-> "document", doc |-> doc]

SID_HEAD == <<"A", "l", "l", "o", "w", "E", "v", "e", "n", "t", "B", "r", "i", "d", "g", "e",
              "S", "e", "n", "d", "-">>

desired_statement(queue_arn, rule_arn) ==
    [Sid |-> SID_HEAD \o Last(Split(rule_arn, "/")),
     Effect |-> "Allow",
     Principal |-> "events.amazonaws.com",
     Action |-> "sqs:SendMessage",
     Resource |-> queue_arn,
     SourceArn |-> rule_arn]

\* the test of lines 239-241
StatementMatches(st, rule_arn) ==
    /\ st.Principal = "events.amazonaws.com"
    /\ st.Action = "sqs:SendMessage"
    /\ st.SourceArn = rule_arn

\* update_queue_policy on a stored Policy attribute.  read_fails, write_fails: the
\* collaborator raises ClientError on get_queue_attributes, on set_queue_attributes.
\* Result: the value returned, whether set_queue_attributes was called, and the
\* attribute stored afterwards.
update_queue_policy(stored, queue_arn, rule_arn, read_fails, write_fails) ==
    LET policy == IF read_fails \/ stored.state # "document"
                  THEN EmptyPolicy ELSE stored.doc
        statements == policy.Statement
        exists == \E i \in 1..Len(statements) : StatementMatches(statements[i], rule_arn)
        merged == [policy EXCEPT !.Statement =
                       Append(statements, desired_statement(queue_arn, rule_arn))]
    IN  IF exists
        THEN [changed |-> FALSE, wrote |-> FALSE, stored |-> stored]
        ELSE IF write_fails
        THEN [changed |-> FALSE, wrote |-> TRUE, stored |-> stored]
        ELSE [changed |-> TRUE, wrote |-> TRUE, stored |-> Document(merged)]

----------------------------------------------------------------------------
(* Rules and targets *)

AWS_WORD == <<"a", "w", "s">>

\* managed_by and "aws" in managed_by.lower()
IsManaged(managed_by) == managed_by # <<>> /\ Contains(Lower(managed_by), AWS_WORD)

EMPTY_ARN == <<"a", "r", "n", ":", "a", "w", "s", ":", "e", "v", "e", "n", "t", "s", ":", ":", ":">>

ARCHIVE_MARK == <<":", "a", "r", "c", "h", "i", "v", "e", "/">>

\* the keys a clone copies besides Id and Arn
CLONE_KEYS == {"RoleArn", "Input", "InputPath", "InputTransformer", "KinesisParameters",
               "RunCommandParameters", "EcsParameters", "BatchParameters", "SqsParameters",
               "HttpParameters", "RedshiftDataParameters", "RetryPolicy"}

\* t.get("DeadLetterConfig") and t["DeadLetterConfig"].get("Arn")
HasDlq(t) == "DeadLetterConfig" \in DOMAIN t /\ t["DeadLetterConfig"].Arn # <<>>

\* t.get("Arn", "")
TargetArn(t) == IF "Arn" \in DOMAIN t THEN t["Arn"] ELSE <<>>

\* the targets attach_dlq_to_targets passes over because of their destination
NotAttachable(t) ==
    \/ TargetArn(t) = <<>>
    \/ TargetArn(t) = EMPTY_ARN
    \/ Contains(TargetArn(t), ARCHIVE_MARK)

Clone(t) == [k \in {"Id", "Arn"} \cup (CLONE_KEYS \cap DOMAIN t) |-> t[k]]

\* a plausible slip: the clone is published without the dead-letter reference
WithDlq_NoReference(c, queue_arn) == c

WithDlq(c, queue_arn) ==
    [k \in DOMAIN c \cup {"DeadLetterConfig"} |->
        IF k = "DeadLetterConfig" THEN [Arn |-> queue_arn] ELSE c[k]]

\* EventBridge put_targets: a target of a known Id is replaced, another is added
PutTargets(existing, updates) ==
    LET Known(u) == \E i \in 1..Len(existing) : existing[i]["Id"] = u["Id"]
        Fresh(u) == ~Known(u)
        Replacement(t) ==
            IF \E j \in 1..Len(updates) : updates[j]["Id"] = t["Id"]
            THEN updates[CHOOSE j \in 1..Len(updates) : updates[j]["Id"] = t["Id"]]
            ELSE t
    IN  [i \in 1..Len(existing) |-> Replacement(existing[i])] \o SelectSeq(updates, Fresh)

\* a bounded sequence holding the elements of a set, in a fixed order
RECURSIVE SeqOfSet(_)
SeqOfSet(S) ==
    IF S = {} THEN <<>>
    ELSE LET x == CHOOSE x \in S : TRUE IN <<x>> \o SeqOfSet(S \ {x})

----------------------------------------------------------------------------
(* The collaborators' state seen by one handler: w = [targets, queues, calls].     *)
(* F is the set of call sites at which the collaborator raises ClientError during  *)
(* the invocation.  calls logs every mutating call, every read of the message      *)
(* counts and every call that failed.  In a reconcile pass w also has held, the    *)
(* number of messages, visible and in flight, each queue holds during the pass.    *)

Call(op, rule, queue, ok) ==
    [op |-> op, rule |-> rule, queue |-> queue, ok |-> ok, count |-> 0]

Logged(w, call) == [w EXCEPT !.calls = Append(@, call)]

\* get_queue_by_name: whether SQS knows the name
QueueExists(w, name) == name \in DOMAIN w.queues

\* rule_has_dlq_attached (lines 132-146): [value, w]
rule_has_dlq_attached(rule_name, w, F) ==
    IF "has_dlq.list_targets" \in F
    THEN [value |-> FALSE, w |-> Logged(w, Call("list_targets", rule_name, <<>>, FALSE))]
    ELSE LET ts == w.targets[rule_name]
             with == {i \in 1..Len(ts) : HasDlq(ts[i])}
             QueueNameOf(i) == Last(Split(ts[i]["DeadLetterConfig"].Arn, ":"))
         IN  IF with = {} THEN [value |-> FALSE, w |-> w]
             ELSE IF "has_dlq.get_queue" \in F
             THEN [value |-> FALSE,
                   w |-> Logged(w, Call("get_queue", rule_name, <<>>, FALSE))]
             ELSE [value |-> \E i \in with : QueueExists(w, QueueNameOf(i)), w |-> w]

\* attach_dlq_to_targets (lines 253-281): [count, w]
attach_dlq_to_targets(rule_name, queue_arn, w, F) ==
    IF "attach.list_targets" \in F
    THEN [count |-> 0, w |-> Logged(w, Call("list_targets", rule_name, <<>>, FALSE))]
    ELSE LET ts == w.targets[rule_name]
             Eligible(t) == ~NotAttachable(t) /\ ~HasDlq(t)
             chosen == SelectSeq(ts, Eligible)
             to_update == [i \in 1..Len(chosen) |-> WithDlq(Clone(chosen[i]), queue_arn)]
         IN  IF to_update = <<>> THEN [count |-> 0, w |-> w]
             ELSE IF "put_targets" \in F
             THEN [count |-> 0, w |-> Logged(w, Call("put_targets", rule_name, <<>>, FALSE))]
             ELSE [count |-> Len(to_update),
                   w |-> Logged([w EXCEPT !.targets[rule_name] = PutTargets(@, to_update)],
                                Call("put_targets", rule_name, <<>>, TRUE))]

BaseResult(rule_name, dlq_name) ==
    [rule_name |-> rule_name, dlq_name |-> dlq_name, queue_created |-> FALSE,
     policy_updated |-> FALSE, targets_updated |-> 0, status |-> "skipped", reason |-> ""]

\* lines 195-209 of ensure_queue_and_policy, the queue known to exist: [result, w, raised]
PolicyAndAttach(rule_name, dlq_name, w, F, created) ==
    LET q_arn == QueueArn(dlq_name)
        q == QueueOfUrl(QueueUrl(dlq_name))
        rule_arn == get_rule_arn(rule_name, BUS_ARN)
        pr == update_queue_policy(w.queues[q].policy, q_arn, rule_arn,
                                  "policy.read" \in F, "policy.write" \in F)
        w1 == IF "policy.read" \in F
              THEN Logged(w, Call("get_policy", rule_name, q, FALSE)) ELSE w
        w2 == IF pr.wrote
              THEN Logged([w1 EXCEPT !.queues[q].policy = pr.stored],
                          Call("set_queue_attributes", rule_name, q, pr.changed))
              ELSE w1
        at == attach_dlq_to_targets(rule_name, q_arn, w2, F)
    IN  [result |-> [BaseResult(rule_name, dlq_name) EXCEPT
                        !.queue_created = created,
                        !.policy_updated = pr.changed,
                        !.targets_updated = at.count,
                        !.status = IF created \/ at.count > 0 THEN "updated" ELSE "no_change"],
         w |-> at.w,
         raised |-> FALSE]

\* ensure_queue_and_policy (lines 149-209): [result, w, raised]; raised: a ClientError
\* left the function
ensure_queue_and_policy(rule_name, dlq_name, w, F, dry_run) ==
    IF dry_run
    THEN [result |-> [BaseResult(rule_name, dlq_name) EXCEPT
                         !.queue_created = TRUE, !.policy_updated = TRUE,
                         !.targets_updated = 1, !.status = "would_create"],
          w |-> w, raised |-> FALSE]
    ELSE LET has == rule_has_dlq_attached(rule_name, w, F) IN
         IF has.value
         THEN [result |-> [BaseResult(rule_name, dlq_name) EXCEPT !.reason = "dlq_exists"],
               w |-> has.w, raised |-> FALSE]
         ELSE IF "get_queue" \in F
         THEN [result |-> BaseResult(rule_name, dlq_name),
               w |-> Logged(has.w, Call("get_queue", rule_name, dlq_name, FALSE)),
               raised |-> TRUE]
         ELSE IF QueueExists(has.w, dlq_name)
         THEN PolicyAndAttach(rule_name, dlq_name, has.w, F, FALSE)
         ELSE IF "create_queue" \in F
         THEN [result |-> BaseResult(rule_name, dlq_name),
               w |-> Logged(has.w, Call("create_queue", rule_name, dlq_name, FALSE)),
               raised |-> TRUE]
         ELSE LET made == Logged([has.w EXCEPT !.queues =
                                     @ @@ (dlq_name :> [policy |-> NoPolicy])],
                                 Call("create_queue", rule_name, dlq_name, TRUE))
              IN  IF "create.get_attributes" \in F
                  THEN [result |-> BaseResult(rule_name, dlq_name),
                        w |-> Logged(made, Call("get_attributes", rule_name, dlq_name, FALSE)),
                        raised |-> TRUE]
                  ELSE PolicyAndAttach(rule_name, dlq_name, made, F, TRUE)

\* list_all_dlq_queues (lines 100-129): the listed queues, in the order of list_queues
list_all_dlq_queues(w, F) ==
    IF "list_queues" \in F THEN <<>>
    ELSE LET urls == SeqOfSet({QueueUrl(n) : n \in DOMAIN w.queues})
             Listed(url) == ExtractedRuleNames(Last(Split(url, "/"))) # {}
             kept == SelectSeq(urls, Listed)
         IN  [i \in 1..Len(kept) |->
                 LET queue_name == Last(Split(kept[i], "/"))
                 IN  [name |-> queue_name, url |-> kept[i],
                      rule_name |-> CHOOSE r \in ExtractedRuleNames(queue_name) : TRUE]]

\* a plausible slip: the test of the managed-by marker is inverted
LiveRuleNames_Inverted(rule_list) ==
    {rule_list[i].Name : i \in {j \in 1..Len(rule_list) : IsManaged(rule_list[j].ManagedBy)}}

\* the rule names cleanup_orphaned_dlqs holds live (lines 293-297)
LiveRuleNames(rule_list) ==
    {rule_list[i].Name : i \in {j \in 1..Len(rule_list) : ~IsManaged(rule_list[j].ManagedBy)}}

\* cleanup_orphaned_dlqs past its dry-run return (lines 293-323): [result, w]
orphan_sweep(rule_list, w, F) ==
    LET rule_names == LiveRuleNames(rule_list)
        dlq_queues == list_all_dlq_queues(w, F)
        Orphaned(q) == q.rule_name \notin rule_names
        orphans == SelectSeq(dlq_queues, Orphaned)
        fails == "delete_queue" \in F
        gone == IF fails THEN {}
                ELSE {QueueOfUrl(orphans[i].url) : i \in 1..Len(orphans)}
        w1 == IF "list_queues" \in F
              THEN Logged(w, Call("list_queues", <<>>, <<>>, FALSE)) ELSE w
    IN  [result |->
            [orphaned_queues |->
                 [i \in 1..Len(orphans) |->
                     [queue_name |-> orphans[i].name,
                      rule_name |-> orphans[i].rule_name,
                      action |-> "deleted"]],
             deleted_count |-> IF fails THEN 0 ELSE Len(orphans)],
         w |-> [w1 EXCEPT
                   !.queues = [n \in DOMAIN @ \ gone |-> @[n]],
                   !.calls = @ \o [i \in 1..Len(orphans) |->
                                      [Call("delete_queue", <<>>,
                                            QueueOfUrl(orphans[i].url), ~fails)
                                       EXCEPT !.count = w.held]]]]

\* a plausible slip: the dry-run return of lines 288-291 is missing
cleanup_orphaned_dlqs_NoDryRunReturn(rule_list, dry_run, w, F) ==
    orphan_sweep(rule_list, w, F)

\* cleanup_orphaned_dlqs (lines 284-323): [result, w]
cleanup_orphaned_dlqs(rule_list, dry_run, w, F) ==
    IF dry_run
    THEN [result |-> [orphaned_queues |-> <<>>, deleted_count |-> 0], w |-> w]
    ELSE orphan_sweep(rule_list, w, F)

\* after the rule's turn in a pass: its queue exists and authorizes it, and each of its
\* attachable targets refers to a queue that exists
Provisioned(rule_name, dlq_name, w) ==
    /\ QueueExists(w, dlq_name)
    /\ w.queues[dlq_name].policy.state = "document"
    /\ \E i \in 1..Len(w.queues[dlq_name].policy.doc.Statement) :
           StatementMatches(w.queues[dlq_name].policy.doc.Statement[i],
                            get_rule_arn(rule_name, BUS_ARN))
    /\ \A i \in 1..Len(w.targets[rule_name]) :
           LET t == w.targets[rule_name][i]
           IN  ~NotAttachable(t) =>
                   HasDlq(t) /\ QueueExists(w, Last(Split(t["DeadLetterConfig"].Arn, ":")))

ZeroAcc ==
    [created |-> 0, policies |-> 0, attached |-> 0, skipped |-> 0, operations |-> <<>>,
     deleted_queues |-> <<>>, deleted_count |-> 0, provisioned |-> {}]

\* the body of the for loop of reconcile_bus (lines 341-365): [acc, w, raised]
reconcile_rule(rule, a, w, F, prefix, skip_rules, dry_run) ==
    IF IsManaged(rule.ManagedBy) \/ rule.Name \in skip_rules
    THEN [acc |-> [a EXCEPT !.skipped = @ + 1], w |-> w, raised |-> FALSE]
    ELSE LET dlq_name == generate_dlq_name(rule.Name, prefix)
             e == ensure_queue_and_policy(rule.Name, dlq_name, w, F, dry_run)
             op == e.result
             undisturbed == Len(e.w.calls) = Len(w.calls)
                            \/ \A i \in (Len(w.calls) + 1)..Len(e.w.calls) : e.w.calls[i].ok
         IN  [acc |-> [a EXCEPT
                          !.operations = Append(@, op),
                          !.created = IF op.queue_created THEN @ + 1 ELSE @,
                          !.policies = IF op.policy_updated THEN @ + 1 ELSE @,
                          !.attached = IF op.targets_updated > 0
                                       THEN @ + op.targets_updated ELSE @,
                          !.provisioned =
                              IF ~dry_run /\ undisturbed
                                 /\ Provisioned(rule.Name, dlq_name, e.w)
                              THEN @ \cup {rule.Name} ELSE @],
              w |-> e.w,
              raised |-> e.raised]

\* the body of the for loop of cleanup_all_dlqs (lines 395-455): [acc, w, raised].
\* visible, inflight: the approximate message counts SQS reports for the queue.
teardown_rule(rule, a, w, F, prefix, skip_rules, dry_run, force_delete, visible, inflight) ==
    IF IsManaged(rule.ManagedBy) \/ rule.Name \in skip_rules
    THEN [acc |-> a, w |-> w, raised |-> FALSE]
    ELSE LET rule_name == rule.Name
             dlq_name == generate_dlq_name(rule_name, prefix)
             q_arn == QueueArn(dlq_name)
             Failed(op) == [acc |-> a,
                            w |-> Logged(w, Call(op, rule_name, dlq_name, FALSE)),
                            raised |-> dry_run]
         IN  IF "get_queue" \in F THEN Failed("get_queue")
             ELSE IF ~QueueExists(w, dlq_name) THEN [acc |-> a, w |-> w, raised |-> FALSE]
             ELSE IF dry_run
             THEN [acc |-> [a EXCEPT !.deleted_queues =
                               Append(@, [rule_name |-> rule_name, dlq_name |-> dlq_name,
                                          action |-> "would_delete"])],
                   w |-> w, raised |-> FALSE]
             ELSE LET read == ~force_delete
                      read_ok == read /\ "get_message_counts" \notin F
                      msg_count == visible + inflight
                      w1 == IF read
                            THEN Logged(w, [Call("get_message_counts", rule_name,
                                                 dlq_name, read_ok)
                                            EXCEPT !.count = msg_count])
                            ELSE w
                      ts == w.targets[rule_name]
                      Refers(t) == "DeadLetterConfig" \in DOMAIN t
                                   /\ t["DeadLetterConfig"].Arn = q_arn
                      chosen == SelectSeq(ts, Refers)
                      to_update == [i \in 1..Len(chosen) |-> Clone(chosen[i])]
                      w2 == IF to_update = <<>> THEN w1
                            ELSE Logged([w1 EXCEPT !.targets[rule_name] =
                                            PutTargets(@, to_update)],
                                        Call("put_targets", rule_name, <<>>, TRUE))
                      q == QueueOfUrl(QueueUrl(dlq_name))
                  IN  IF read_ok /\ msg_count > 0
                      THEN [acc |-> a, w |-> w1, raised |-> FALSE]
                      ELSE IF "list_targets" \in F
                      THEN [acc |-> a,
                            w |-> Logged(w1, Call("list_targets", rule_name, <<>>, FALSE)),
                            raised |-> FALSE]
                      ELSE IF to_update # <<>> /\ "put_targets" \in F
                      THEN [acc |-> a,
                            w |-> Logged(w1, Call("put_targets", rule_name, <<>>, FALSE)),
                            raised |-> FALSE]
                      ELSE IF "delete_queue" \in F
                      THEN [acc |-> a,
                            w |-> Logged(w2, Call("delete_queue", rule_name, q, FALSE)),
                            raised |-> FALSE]
                      ELSE [acc |-> [a EXCEPT
                                        !.deleted_queues =
                                            Append(@, [rule_name |-> rule_name,
                                                       dlq_name |-> dlq_name,
                                                       action |-> "deleted"]),
                                        !.deleted_count = @ + 1],
                            w |-> Logged([w2 EXCEPT !.queues =
                                             [n \in DOMAIN @ \ {q} |-> @[n]]],
                                         Call("delete_queue", rule_name, q, TRUE)),
                            raised |-> FALSE]

AllOk(calls) == \A i \in 1..Len(calls) : calls[i].ok

Failures(calls) == Cardinality({i \in 1..Len(calls) : ~calls[i].ok})

\* a ClientError leaves the handler: the invocation fails
Raised(w, dry_run) == [kind |-> "error", dry_run |-> dry_run, calls |-> w.calls]

\* the for loop of reconcile_bus (lines 341-365) from the i-th rule on: [acc, w, raised];
\* r is the outcome of the i-th rule's turn
RECURSIVE reconcile_loop(_, _, _, _, _, _, _, _)
reconcile_next(r, rule_list, i, F, prefix, skip_rules, dry_run) ==
    IF r.raised THEN r
    ELSE reconcile_loop(rule_list, i + 1, r.acc, r.w, F, prefix, skip_rules, dry_run)

reconcile_loop(rule_list, i, a, w, F, prefix, skip_rules, dry_run) ==
    IF i > Len(rule_list) THEN [acc |-> a, w |-> w, raised |-> FALSE]
    ELSE reconcile_next(reconcile_rule(rule_list[i], a, w, F, prefix, skip_rules, dry_run),
                        rule_list, i, F, prefix, skip_rules, dry_run)

\* lines 367-381 of reconcile_bus: l is the outcome of the loop, c of the orphan cleanup
reconcile_summary(l, c, rule_list, skip_rules, dry_run) ==
    [result |->
        [kind |-> "reconcile",
         dry_run |-> dry_run,
         skip_rules |-> skip_rules,
         queues_created |-> l.acc.created,
         policies_updated |-> l.acc.policies,
         targets_attached |-> l.acc.attached,
         rules_total |-> Len(rule_list),
         rules_skipped |-> l.acc.skipped,
         operations |-> l.acc.operations,
         orphaned_cleanup |-> c.result,
         provisioned |-> l.acc.provisioned,
         calls |-> c.w.calls],
     w |-> c.w]

reconcile_finish(l, rule_list, F, skip_rules, dry_run) ==
    IF l.raised THEN [result |-> Raised(l.w, dry_run), w |-> l.w]
    ELSE reconcile_summary(l, cleanup_orphaned_dlqs(rule_list, dry_run, l.w, F),
                           rule_list, skip_rules, dry_run)

\* list_rules raised: the invocation fails before any rule is looked at
ListingFailed(w, dry_run) ==
    [result |-> Raised(Logged(w, Call("list_rules", <<>>, <<>>, FALSE)), dry_run),
     w |-> Logged(w, Call("list_rules", <<>>, <<>>, FALSE))]

\* reconcile_bus (lines 326-381): [result, w]; rule_list is what list_rules returns
reconcile_bus(rule_list, w, F, prefix, skip_rules, dry_run) ==
    IF "list_rules" \in F THEN ListingFailed(w, dry_run)
    ELSE reconcile_finish(
             reconcile_loop(rule_list, 1, ZeroAcc, w, F, prefix, skip_rules, dry_run),
             rule_list, F, skip_rules, dry_run)

\* the for loop of cleanup_all_dlqs (lines 395-455) from the i-th rule on
RECURSIVE teardown_loop(_, _, _, _, _, _, _, _, _, _, _)
teardown_next(r, rule_list, i, F, prefix, skip_rules, dry_run, force_delete, visible, inflight) ==
    IF r.raised THEN r
    ELSE teardown_loop(rule_list, i + 1, r.acc, r.w, F, prefix, skip_rules,
                       dry_run, force_delete, visible, inflight)

teardown_loop(rule_list, i, a, w, F, prefix, skip_rules, dry_run, force_delete, visible, inflight) ==
    IF i > Len(rule_list) THEN [acc |-> a, w |-> w, raised |-> FALSE]
    ELSE teardown_next(teardown_rule(rule_list[i], a, w, F, prefix, skip_rules, dry_run,
                                     force_delete, visible, inflight),
                       rule_list, i, F, prefix, skip_rules, dry_run, force_delete,
                       visible, inflight)

\* lines 457-464 of cleanup_all_dlqs: l is the outcome of the loop
teardown_finish(l, rule_list, skip_rules, dry_run, force_delete) ==
    IF l.raised THEN [result |-> Raised(l.w, dry_run), w |-> l.w]
    ELSE [result |->
             [kind |-> "teardown",
              dry_run |-> dry_run,
              force_delete |-> force_delete,
              skip_rules |-> skip_rules,
              deleted_count |-> l.acc.deleted_count,
              deleted_queues |-> l.acc.deleted_queues,
              rules_processed |->
                  Cardinality({j \in 1..Len(rule_list) :
                                  ~IsManaged(rule_list[j].ManagedBy)}),
              calls |-> l.w.calls],
          w |-> l.w]

\* cleanup_all_dlqs (lines 384-464): [result, w]
cleanup_all_dlqs(rule_list, w, F, prefix, skip_rules, dry_run, force_delete, visible, inflight) ==
    IF "list_rules" \in F THEN ListingFailed(w, dry_run)
    ELSE teardown_finish(
             teardown_loop(rule_list, 1, ZeroAcc, w, F, prefix, skip_rules, dry_run,
                           force_delete, visible, inflight),
             rule_list, skip_rules, dry_run, force_delete)

----------------------------------------------------------------------------
(* The bus, the queues and the invocations the model explores *)

MaxTargets == 2

MaxFaults == 1

MaxMessages == 1

RULE_A == <<"o", "r", "d", "e", "r", "-", "e", "v", "e", "n", "t", "s">>

RULE_B == <<"o", "r", "d", "e", "r", "-", "e", "v", "e", "n", "t", "s",
            "-", "r", "u", "l", "e", "-", "d", "l", "q">>

RuleNames == {RULE_A, RULE_B}

PROD == <<"p", "r", "o", "d">>

Prefixes == {<<>>, PROD}

Markers == {<<>>, <<"A", "W", "S">>}

SkipChoices == {{}, {RULE_A}, {RULE_B}}

LEGACY == <<"l", "e", "g", "a", "c", "y">>

FN_ARN == <<"a", "r", "n", ":", "a", "w", "s", ":", "l", "a", "m", "b", "d", "a", ":",
            "r", ":", "1", ":", "f", "u", "n", "c", "t", "i", "o", "n", ":", "f">>

ARCHIVE_ARN == <<"a", "r", "n", ":", "a", "w", "s", ":", "e", "v", "e", "n", "t", "s", ":",
                 "r", ":", "1", ":", "a", "r", "c", "h", "i", "v", "e", "/", "a">>

\* the targets a rule may carry when the model starts
Templates ==
    << [Id |-> "t1", Arn |-> FN_ARN, RoleArn |-> "role"],
       [Id |-> "t2", Arn |-> FN_ARN, SageMakerPipelineParameters |-> "pipeline"],
       [Id |-> "t3", Arn |-> FN_ARN, DeadLetterConfig |-> [Arn |-> QueueArn(LEGACY)]],
       [Id |-> "t4", Arn |-> ARCHIVE_ARN] >>

TargetLists ==
    {[i \in 1..Cardinality(S) |->
         Templates[CHOOSE k \in S : Cardinality({j \in S : j < k}) = i - 1]] :
     S \in {T \in SUBSET (1..Len(Templates)) : Cardinality(T) <= MaxTargets}}

\* the call sites an invocation passes: a dry run only reads
ReconcileSites(dry_run) ==
    IF dry_run THEN {"list_rules"}
    ELSE {"list_rules", "has_dlq.list_targets", "has_dlq.get_queue", "get_queue",
          "create_queue", "create.get_attributes", "policy.read", "policy.write",
          "attach.list_targets", "put_targets", "list_queues", "delete_queue"}

TeardownSites(dry_run, force_delete) ==
    IF dry_run THEN {"list_rules", "get_queue"}
    ELSE {"list_rules", "get_queue", "list_targets", "put_targets", "delete_queue"}
             \cup (IF force_delete THEN {} ELSE {"get_message_counts"})

\* the subsets of sites of at most n elements
RECURSIVE SubsetsUpTo(_, _)
SubsetsUpTo(sites, n) ==
    IF n <= 0 THEN {{}}
    ELSE SubsetsUpTo(sites, n - 1)
             \cup {P \cup {f} : P \in SubsetsUpTo(sites, n - 1), f \in sites}

\* the sets of call sites that may fail in one invocation
FaultSets(sites) == SubsetsUpTo(sites, MaxFaults - faulted)

\* (visible, inflight) as SQS may report them
MessageCounts ==
    {c \in (0..MaxMessages) \X (0..MaxMessages) : c[1] + c[2] <= MaxMessages}

\* the counts are read only by a teardown that is neither a dry run nor forced
CountsRead(dry_run, force_delete) ==
    IF dry_run \/ force_delete THEN {<<0, 0>>} ELSE MessageCounts

\* what list_rules returns
RuleList ==
    LET names == SeqOfSet(DOMAIN rules)
    IN  [i \in 1..Len(names) |-> [Name |-> names[i], ManagedBy |-> rules[names[i]]]]

NoPrior == [kind |-> "none", skip_rules |-> {}, provisioned |-> {}, clean |-> FALSE]

World == [targets |-> targets, queues |-> queues, calls |-> <<>>]

\* the collaborators' state during a reconcile pass
Holding(w, held) ==
    [targets |-> w.targets, queues |-> w.queues, calls |-> w.calls, held |-> held]

\* the messages the queues may hold during a reconcile pass: a dry run lists no queue
HeldChoices(dry_run) == IF dry_run THEN {0} ELSE 0..MaxMessages

CodecOff == [pc |-> "off", R |-> <<>>, P |-> <<>>, out |-> <<>>, recovered |-> {}]

PolOff == [pc |-> "off"]

Init ==
    /\ envPrefix \in Prefixes
    /\ rules \in [RuleNames -> Markers]
    /\ rules[RULE_B] = <<>>
    /\ targets \in [RuleNames -> TargetLists]
    /\ targets[RULE_B] = <<Templates[1]>>
    /\ IsManaged(rules[RULE_A]) => targets[RULE_A] = <<Templates[1]>>
    /\ queues \in {<<>>, (LEGACY :> [policy |-> NoPolicy])}
    /\ (\A i \in 1..Len(targets[RULE_A]) : ~HasDlq(targets[RULE_A][i])) => queues = <<>>
    /\ pc = "idle"
    /\ last = [kind |-> "none"]
    /\ prior = NoPrior
    /\ faulted = 0
    /\ codec = CodecOff
    /\ pol = PolOff

\* the bus after an invocation whose outcome is r
Responds(r) ==
    /\ last' = r.result
    /\ targets' = r.w.targets
    /\ queues' = r.w.queues
    /\ faulted' = faulted + Failures(r.w.calls)
    /\ prior' = IF r.result.kind = "reconcile" /\ ~r.result.dry_run
                THEN [kind |-> "reconcile", skip_rules |-> r.result.skip_rules,
                      provisioned |-> r.result.provisioned,
                      clean |-> AllOk(r.w.calls)]
                ELSE NoPrior
    /\ pc' = "done"
    /\ UNCHANGED <<rules, envPrefix, codec, pol>>

\* handler: action reconcile (lines 508-510)
Reconcile(dry_run, skip_rules, F, held) ==
    /\ pc = "idle"
    /\ Responds(reconcile_bus(RuleList, Holding(World, held), F, envPrefix, skip_rules,
                              dry_run))

\* handler: action delete_all_for_bus (lines 505-507)
Teardown(dry_run, force_delete, skip_rules, F, counts) ==
    /\ pc = "idle"
    /\ Responds(cleanup_all_dlqs(RuleList, World, F, envPrefix, skip_rules, dry_run,
                                 force_delete, counts[1], counts[2]))

\* the response is handed to the caller
Return ==
    /\ pc = "done"
    /\ pc' = "idle"
    /\ last' = [kind |-> "none"]
    /\ UNCHANGED <<rules, targets, queues, envPrefix, prior, faulted, codec, pol>>

\* outside the system: a rule is deleted from the bus, with its targets
DeleteRule(r) ==
    /\ pc = "idle"
    /\ r \in DOMAIN rules
    /\ rules' = [n \in DOMAIN rules \ {r} |-> rules[n]]
    /\ targets' = [n \in DOMAIN targets \ {r} |-> targets[n]]
    /\ prior' = NoPrior
    /\ UNCHANGED <<queues, envPrefix, pc, last, faulted, codec, pol>>

Next ==
    \/ \E dry_run \in BOOLEAN, skip_rules \in SkipChoices :
           \E F \in FaultSets(ReconcileSites(dry_run)), held \in HeldChoices(dry_run) :
               Reconcile(dry_run, skip_rules, F, held)
    \/ \E dry_run \in BOOLEAN, force_delete \in BOOLEAN, skip_rules \in SkipChoices :
           \E F \in FaultSets(TeardownSites(dry_run, force_delete)),
              counts \in CountsRead(dry_run, force_delete) :
               Teardown(dry_run, force_delete, skip_rules, F, counts)
    \/ Return
    \/ \E r \in RuleNames : DeleteRule(r)

Spec == Init /\ [][Next]_vars

----------------------------------------------------------------------------
(* The naming codec on its own: every rule name and prefix up to the bounds *)

MaxRuleLen == 82

MaxPrefixLen == 72

DIGITS == <<"0", "1", "2", "3", "4", "5", "6", "7", "8", "9">>

LETTERS == <<"a", "b", "c", "d", "e", "f", "g", "h", "i", "j">>

\* a string of length n whose characters tell their positions apart
Pattern(alphabet, n) == [i \in 1..n |-> alphabet[(i % Len(alphabet)) + 1]]

NameInputs == {Pattern(DIGITS, n) : n \in 0..MaxRuleLen} \cup RuleNames

PrefixInputs == {Pattern(LETTERS, n) : n \in 0..MaxPrefixLen} \cup {PROD}

BusOff ==
    /\ rules = <<>>
    /\ targets = <<>>
    /\ queues = <<>>
    /\ envPrefix = <<>>
    /\ pc = "off"
    /\ last = [kind |-> "none"]
    /\ prior = NoPrior
    /\ faulted = 0

InitNames ==
    /\ BusOff
    /\ pol = PolOff
    /\ codec \in {[pc |-> "in", R |-> R, P |-> P, out |-> <<>>, recovered |-> {}] :
                    R \in NameInputs, P \in PrefixInputs}

\* generate_dlq_name(R, P), and what list_all_dlq_queues extracts from the result
Derive ==
    /\ codec.pc = "in"
    /\ codec' = [codec EXCEPT
                    !.pc = "out",
                    !.out = generate_dlq_name(codec.R, codec.P),
                    !.recovered = ExtractedRuleNames(generate_dlq_name(codec.R, codec.P))]
    /\ UNCHANGED <<busVars, pol>>

NextNames == Derive

SpecNames == InitNames /\ [][NextNames]_vars

----------------------------------------------------------------------------
(* The extraction of list_all_dlq_queues on its own: every queue name of up to     *)
(* MaxSegments segments drawn from Segments                                        *)

MaxSegments == 5

Segments == {<<>>, <<"p">>, <<"a">>, RULE_TOKEN, DLQ_TOKEN}

QueueNameInputs ==
    {Join(s, "-") : s \in UNION {[1..n -> Segments] : n \in 1..MaxSegments}}

InitQueues ==
    /\ BusOff
    /\ pol = PolOff
    /\ codec \in {[pc |-> "name", R |-> <<>>, P |-> <<>>, out |-> q, recovered |-> {}] :
                    q \in QueueNameInputs}

\* what list_all_dlq_queues extracts from the queue name (lines 108-126)
Extract ==
    /\ codec.pc = "name"
    /\ codec' = [codec EXCEPT !.pc = "extracted",
                              !.recovered = ExtractedRuleNames(codec.out)]
    /\ UNCHANGED <<busVars, pol>>

NextQueues == Extract

SpecQueues == InitQueues /\ [][NextQueues]_vars

----------------------------------------------------------------------------
(* The policy merger on its own: sequential calls on one queue *)

MaxStatements == 2

QUEUE_ARN == QueueArn(generate_dlq_name(RULE_A, PROD))

RuleArns == {get_rule_arn(r, BUS_ARN) : r \in RuleNames}

\* a statement some other party put into the policy
FOREIGN == [Sid |-> <<"s", "n", "s">>, Effect |-> "Allow",
            Principal |-> "sns.amazonaws.com", Action |-> "sqs:SendMessage",
            Resource |-> QUEUE_ARN, SourceArn |-> <<"t", "o", "p", "i", "c">>]

StatementPool == {desired_statement(QUEUE_ARN, a) : a \in RuleArns} \cup {FOREIGN}

\* the (principal, action, source-rule-ARN condition) of a statement
Triple(st) == <<st.Principal, st.Action, st.SourceArn>>

Unique(statements) ==
    \A i, j \in 1..Len(statements) :
        Triple(statements[i]) = Triple(statements[j]) => i = j

Present(stored, rule_arn) ==
    /\ stored.state = "document"
    /\ \E i \in 1..Len(stored.doc.Statement) :
           StatementMatches(stored.doc.Statement[i], rule_arn)

InitialPolicies ==
    {NoPolicy, Garbage} \cup
    {Document([EmptyPolicy EXCEPT !.Statement = sts]) :
        sts \in {q \in UNION {[1..n -> StatementPool] : n \in 0..MaxStatements} : Unique(q)}}

InitPolicy ==
    /\ BusOff
    /\ codec = CodecOff
    /\ pol \in {[pc |-> "ready", stored |-> st, rule_arn |-> <<>>, present |-> FALSE,
                 returned |-> FALSE, wrote |-> FALSE, read_failed |-> FALSE,
                 write_failed |-> FALSE, before |-> st] : st \in InitialPolicies}

\* one call of update_queue_policy(queue_url, QUEUE_ARN, rule_arn)
EnsureAuthorized(rule_arn, read_fails, write_fails) ==
    /\ pol.pc \in {"ready", "called"}
    /\ LET r == update_queue_policy(pol.stored, QUEUE_ARN, rule_arn, read_fails, write_fails)
       IN  pol' = [pc |-> "called", stored |-> r.stored, rule_arn |-> rule_arn,
                   present |-> Present(pol.stored, rule_arn),
                   returned |-> r.changed, wrote |-> r.wrote,
                   read_failed |-> read_fails, write_failed |-> r.wrote /\ write_fails,
                   before |-> pol.stored]
    /\ UNCHANGED <<busVars, codec>>

NextPolicy ==
    \E rule_arn \in RuleArns, read_fails \in BOOLEAN, write_fails \in BOOLEAN :
        EnsureAuthorized(rule_arn, read_fails, write_fails)

SpecPolicy == InitPolicy /\ [][NextPolicy]_vars

----------------------------------------------------------------------------
(* Two reconcile passes that are not dry runs, over the same bus at the same time. *)
(* Each collaborator call is one step; what a pass does between two calls is part  *)
(* of the step of the earlier call.  pc maps a pass to its position and to the     *)
(* locals it holds: the listed rules, the index of the rule in turn, the targets   *)
(* it has listed, the policy it is about to store, the orphans it is deleting.     *)

Passes == {"pass1", "pass2"}

\* two rule names of 64 characters that differ in the last one: generate_dlq_name
\* cuts both to the same queue name when the prefix is PRODUCTION
LONG_X == Append(Pattern(DIGITS, 63), "x")

LONG_Y == Append(Pattern(DIGITS, 63), "y")

PRODUCTION == <<"p", "r", "o", "d", "u", "c", "t", "i", "o", "n">>

ConcurrentPrefixes == Prefixes \cup {PRODUCTION}

\* the rules of the bus the two passes run over
ConcurrentBuses == {{RULE_A, RULE_B}, {LONG_X, LONG_Y}}

Locals ==
    [ts |-> <<>>, j |-> 0, created |-> FALSE, pending |-> NoPolicy, to_update |-> <<>>]

NewPass(skip_rules) ==
    [at |-> "list_rules", skip_rules |-> skip_rules, rule_list |-> <<>>, i |-> 0,
     orphans |-> <<>>, k |-> 0, operations |-> {}] @@ Locals

\* the locals of ensure_queue_and_policy are dropped when it returns
Forget(s) == [f \in DOMAIN s |-> IF f \in DOMAIN Locals THEN Locals[f] ELSE s[f]]

\* the for loop of reconcile_bus moves to the rule at index from or after it that is
\* neither managed nor skipped (lines 341-357); past the last one, to the cleanup
Advance(s, from) ==
    LET worked == {n \in from..Len(s.rule_list) :
                      /\ ~IsManaged(s.rule_list[n].ManagedBy)
                      /\ s.rule_list[n].Name \notin s.skip_rules}
    IN  IF worked = {}
        THEN [Forget(s) EXCEPT !.at = "list_queues", !.i = 0]
        ELSE [Forget(s) EXCEPT !.at = "has_dlq.list_targets",
                               !.i = CHOOSE n \in worked : \A m \in worked : n <= m]

\* ensure_queue_and_policy returns an operation for the rule in turn (lines 357-358)
Operated(s, status) ==
    Advance([s EXCEPT !.operations = @ \cup {[rule_name |-> s.rule_list[s.i].Name,
                                               status |-> status]}],
            s.i + 1)

RuleInTurn(p) == pc[p].rule_list[pc[p].i].Name

DlqInTurn(p) == generate_dlq_name(RuleInTurn(p), envPrefix)

\* the targets attach_dlq_to_targets republishes (lines 257-274)
ToUpdate(ts, queue_arn) ==
    LET Eligible(t) == ~NotAttachable(t) /\ ~HasDlq(t)
        chosen == SelectSeq(ts, Eligible)
    IN  [i \in 1..Len(chosen) |-> WithDlq(Clone(chosen[i]), queue_arn)]

\* the queue the dead-letter reference of target t names (lines 139-140)
ReferredQueue(t) == Last(Split(t["DeadLetterConfig"].Arn, ":"))

\* rule_has_dlq_attached goes on to the target after index j that has a reference,
\* and ensure_queue_and_policy to its queue lookup when there is none (lines 136-144)
NextReference(s, ts, j) ==
    LET with == {n \in (j + 1)..Len(ts) : HasDlq(ts[n])}
    IN  IF with = {}
        THEN [Forget(s) EXCEPT !.at = "get_queue"]
        ELSE [s EXCEPT !.at = "has_dlq.get_queue", !.ts = ts,
                       !.j = CHOOSE n \in with : \A m \in with : n <= m]

Moves(p, s) == pc' = [pc EXCEPT ![p] = s]

\* list_all_rules (line 333)
ListRules(p) ==
    /\ pc[p].at = "list_rules"
    /\ Moves(p, Advance([pc[p] EXCEPT !.rule_list = RuleList], 1))
    /\ UNCHANGED <<rules, targets, queues, envPrefix, last, prior, faulted, codec, pol>>

\* rule_has_dlq_attached: list_targets (line 135)
HasDlqListTargets(p) ==
    /\ pc[p].at = "has_dlq.list_targets"
    /\ Moves(p, NextReference(pc[p], targets[RuleInTurn(p)], 0))
    /\ UNCHANGED <<rules, targets, queues, envPrefix, last, prior, faulted, codec, pol>>

\* rule_has_dlq_attached: get_queue_by_name of a referred queue (lines 141-143)
HasDlqGetQueue(p) ==
    /\ pc[p].at = "has_dlq.get_queue"
    /\ Moves(p, IF ReferredQueue(pc[p].ts[pc[p].j]) \in DOMAIN queues
                THEN Operated(pc[p], "skipped")
                ELSE NextReference(pc[p], pc[p].ts, pc[p].j))
    /\ UNCHANGED <<rules, targets, queues, envPrefix, last, prior, faulted, codec, pol>>

\* ensure_queue_and_policy: get_queue_by_name(dlq_name) (lines 178-179)
GetQueue(p) ==
    /\ pc[p].at = "get_queue"
    /\ Moves(p, [pc[p] EXCEPT !.at = IF DlqInTurn(p) \in DOMAIN queues
                                     THEN "policy.read" ELSE "create_queue"])
    /\ UNCHANGED <<rules, targets, queues, envPrefix, last, prior, faulted, codec, pol>>

\* ensure_queue_and_policy: create_queue (line 186); SQS returns the queue of that
\* name when it exists with the same attributes
CreateQueue(p) ==
    /\ pc[p].at = "create_queue"
    /\ queues' = queues @@ (DlqInTurn(p) :> [policy |-> NoPolicy])
    /\ Moves(p, [pc[p] EXCEPT !.at = "create.get_attributes", !.created = TRUE])
    /\ UNCHANGED <<rules, targets, envPrefix, last, prior, faulted, codec, pol>>

\* ensure_queue_and_policy: get_queue_attributes of the created queue (line 188); the
\* ClientError of a queue deleted meanwhile leaves reconcile_bus
CreateGetAttributes(p) ==
    /\ pc[p].at = "create.get_attributes"
    /\ Moves(p, IF DlqInTurn(p) \in DOMAIN queues
                THEN [pc[p] EXCEPT !.at = "policy.read"]
                ELSE [Forget(pc[p]) EXCEPT !.at = "failed"])
    /\ UNCHANGED <<rules, targets, queues, envPrefix, last, prior, faulted, codec, pol>>

\* update_queue_policy: get_queue_attributes and the scan (lines 224-245); the policy
\* with the statement appended is held until it is stored
PolicyRead(p) ==
    /\ pc[p].at = "policy.read"
    /\ LET dlq_name == DlqInTurn(p)
           gone == dlq_name \notin DOMAIN queues
           pr == update_queue_policy(IF gone THEN NoPolicy ELSE queues[dlq_name].policy,
                                     QueueArn(dlq_name),
                                     get_rule_arn(RuleInTurn(p), BUS_ARN), gone, FALSE)
       IN  Moves(p, IF pr.wrote
                    THEN [pc[p] EXCEPT !.at = "policy.write", !.pending = pr.stored]
                    ELSE [pc[p] EXCEPT !.at = "attach.list_targets"])
    /\ UNCHANGED <<rules, targets, queues, envPrefix, last, prior, faulted, codec, pol>>

\* update_queue_policy: set_queue_attributes (line 247); the ClientError of a queue
\* deleted meanwhile is caught (lines 249-250)
PolicyWrite(p) ==
    /\ pc[p].at = "policy.write"
    /\ queues' = IF DlqInTurn(p) \in DOMAIN queues
                 THEN [queues EXCEPT ![DlqInTurn(p)].policy = pc[p].pending]
                 ELSE queues
    /\ Moves(p, [pc[p] EXCEPT !.at = "attach.list_targets", !.pending = NoPolicy])
    /\ UNCHANGED <<rules, targets, envPrefix, last, prior, faulted, codec, pol>>

\* attach_dlq_to_targets: list_targets and the choice of targets (lines 256-276)
AttachListTargets(p) ==
    /\ pc[p].at = "attach.list_targets"
    /\ LET to_update == ToUpdate(targets[RuleInTurn(p)], QueueArn(DlqInTurn(p)))
       IN  Moves(p, IF to_update = <<>>
                    THEN Operated(pc[p], IF pc[p].created THEN "updated" ELSE "no_change")
                    ELSE [pc[p] EXCEPT !.at = "put_targets", !.to_update = to_update])
    /\ UNCHANGED <<rules, targets, queues, envPrefix, last, prior, faulted, codec, pol>>

\* attach_dlq_to_targets: put_targets (line 277)
AttachPutTargets(p) ==
    /\ pc[p].at = "put_targets"
    /\ targets' = [targets EXCEPT ![RuleInTurn(p)] = PutTargets(@, pc[p].to_update)]
    /\ Moves(p, Operated(pc[p], "updated"))
    /\ UNCHANGED <<rules, queues, envPrefix, last, prior, faulted, codec, pol>>

\* cleanup_orphaned_dlqs: list_queues and the choice of orphans (lines 293-311)
ListQueues(p) ==
    /\ pc[p].at = "list_queues"
    /\ LET rule_names == LiveRuleNames(pc[p].rule_list)
           dlq_queues == list_all_dlq_queues([queues |-> queues], {})
           Orphaned(q) == q.rule_name \notin rule_names
           orphans == SelectSeq(dlq_queues, Orphaned)
       IN  Moves(p, IF orphans = <<>>
                    THEN [pc[p] EXCEPT !.at = "done"]
                    ELSE [pc[p] EXCEPT !.at = "delete_queue", !.orphans = orphans, !.k = 1])
    /\ UNCHANGED <<rules, targets, queues, envPrefix, last, prior, faulted, codec, pol>>

\* cleanup_orphaned_dlqs: delete_queue (lines 316-321); the ClientError of a queue
\* already deleted is caught
DeleteQueue(p) ==
    /\ pc[p].at = "delete_queue"
    /\ LET gone == QueueOfUrl(pc[p].orphans[pc[p].k].url)
       IN  queues' = [n \in DOMAIN queues \ {gone} |-> queues[n]]
    /\ Moves(p, IF pc[p].k = Len(pc[p].orphans)
                THEN [pc[p] EXCEPT !.at = "done", !.orphans = <<>>, !.k = 0]
                ELSE [pc[p] EXCEPT !.k = @ + 1])
    /\ UNCHANGED <<rules, targets, envPrefix, last, prior, faulted, codec, pol>>

InitConcurrent ==
    /\ envPrefix \in ConcurrentPrefixes
    /\ \E bus \in ConcurrentBuses :
           /\ rules = [r \in bus |-> <<>>]
           /\ targets = [r \in bus |-> <<Templates[1]>>]
           /\ pc \in [Passes -> {NewPass(skip_rules) :
                                    skip_rules \in {{}} \cup {{r} : r \in bus}}]
    /\ queues = <<>>
    /\ last = [kind |-> "none"]
    /\ prior = NoPrior
    /\ faulted = 0
    /\ codec = CodecOff
    /\ pol = PolOff

NextConcurrent ==
    \E p \in Passes :
        \/ ListRules(p)
        \/ HasDlqListTargets(p)
        \/ HasDlqGetQueue(p)
        \/ GetQueue(p)
        \/ CreateQueue(p)
        \/ CreateGetAttributes(p)
        \/ PolicyRead(p)
        \/ PolicyWrite(p)
        \/ AttachListTargets(p)
        \/ AttachPutTargets(p)
        \/ ListQueues(p)
        \/ DeleteQueue(p)

SpecConcurrent == InitConcurrent /\ [][NextConcurrent]_vars

\* both passes have returned, or have been left by a ClientError
Finished == \A p \in Passes : pc[p].at \in {"done", "failed"}

\* the rules for which a pass went through ensure_queue_and_policy past the
\* short-circuit of lines 172-175
ProvisionedRules ==
    {op.rule_name : op \in {o \in UNION {pc[p].operations : p \in Passes} :
                                o.status # "skipped"}}

----------------------------------------------------------------------------
(* Properties *)

\* the calls that change a queue, a policy or a target
MutatingOps == {"create_queue", "set_queue_attributes", "put_targets", "delete_queue"}

\* the rules on the bus that are not platform-managed
LiveNames == {R \in DOMAIN rules : ~IsManaged(rules[R])}

\* the queue q of qs authorizes rule R
Authorizes(qs, q, R) == Present(qs[q].policy, get_rule_arn(R, BUS_ARN))

\* an invocation has just completed
Completes == pc = "idle" /\ pc' = "done"

\* the longest prefix that leaves room for its hyphen and the suffix
LongestFittingPrefix == MAX_NAME_LEN - Len(SUFFIX) - 1

\* the derived name is within the limit, ends with the suffix, and is the prefix with
\* its hyphen (when there is a prefix), a prefix of the rule name, and the suffix
NameWellFormed ==
    /\ Len(codec.out) <= MAX_NAME_LEN
    /\ EndsWith(codec.out, SUFFIX)
    /\ \E k \in 0..Len(codec.R) :
           codec.out = (IF codec.P # <<>> THEN codec.P \o <<"-">> ELSE <<>>)
                           \o SubSeq(codec.R, 1, k) \o SUFFIX

\* C10 as stated: for every rule name and every prefix, of any length, the derived name
\* has at most 80 characters, ends with "-rule-dlq", and is the prefix and a hyphen (when
\* the prefix is not empty), then a prefix of the rule name, then the suffix.
C10_NameBound == codec.pc = "out" => NameWellFormed

\* C10 amended: the same holds for every rule name and every prefix of at most 70
\* characters, the longest prefix that fits with its hyphen and the suffix.
C10_NameBound_FittingPrefix ==
    (codec.pc = "out" /\ Len(codec.P) <= LongestFittingPrefix) => NameWellFormed

\* a name derived with a prefix of the greatest fitting length and truncated for it
C10_Witness ==
    /\ codec.pc = "out"
    /\ Len(codec.P) = LongestFittingPrefix
    /\ codec.R # <<>>
    /\ codec.out = codec.P \o <<"-">> \o SUFFIX

\* C2: after any number of sequential update_queue_policy calls on a queue whose policy
\* had no duplicate statements, no two statements of the stored policy share their
\* (principal, action, source rule ARN), and a call for a rule ARN whose statement is
\* already in the policy returns false and writes no policy.
C2_PolicyUniqueness ==
    /\ pol.pc # "off" => Unique(pol.stored.doc.Statement)
    /\ (pol.pc = "called" /\ pol.present) => (~pol.returned /\ ~pol.wrote)

\* C1: when a non-dry-run reconcile pass directly follows another with the same
\* arguments and nothing else touched the bus or the queues in between, the second
\* pass's operation for every rule the first pass fully provisioned has
\* queue_created false, policy_updated false and targets_updated 0.  Stated here for
\* the passes in which no collaborator call fails.
C1_Idempotence ==
    [][(/\ Completes
        /\ prior.kind = "reconcile"
        /\ prior.clean
        /\ last'.kind = "reconcile"
        /\ ~last'.dry_run
        /\ last'.skip_rules = prior.skip_rules
        /\ AllOk(last'.calls))
       => \A i \in 1..Len(last'.operations) :
              last'.operations[i].rule_name \in prior.provisioned
                  => /\ ~last'.operations[i].queue_created
                     /\ ~last'.operations[i].policy_updated
                     /\ last'.operations[i].targets_updated = 0]_vars

\* C3: in a non-dry-run reconcile pass, orphan cleanup never deletes the queue named
\* generate_dlq_name(R, ENV_PREFIX) of a rule R that is on the bus and not managed.
C3_OnlyOrphansDeleted ==
    (pc = "done" /\ last.kind = "reconcile" /\ ~last.dry_run)
        => \A i \in 1..Len(last.calls) :
               (last.calls[i].op = "delete_queue" /\ last.calls[i].ok)
                   => \A R \in LiveNames :
                          last.calls[i].queue # generate_dlq_name(R, envPrefix)

\* C4: in a teardown with forceDelete false, for a rule whose queue holds visible or
\* in-flight messages, no delete_queue and no put_targets call is issued and the rule
\* is not recorded in deleted_queues.
C4_DeleteGuard ==
    (pc = "done" /\ last.kind = "teardown" /\ ~last.dry_run /\ ~last.force_delete)
        => \A i \in 1..Len(last.calls) :
               (last.calls[i].op = "get_message_counts" /\ last.calls[i].count > 0)
                   => /\ \A j \in 1..Len(last.calls) :
                             last.calls[j].rule = last.calls[i].rule
                                 => last.calls[j].op \notin {"delete_queue", "put_targets"}
                      /\ \A k \in 1..Len(last.deleted_queues) :
                             last.deleted_queues[k].rule_name # last.calls[i].rule

\* C5: after a non-dry-run reconcile pass in which no collaborator call failed, every
\* rule that is neither managed nor skipped has a queue (the one named for it, or one
\* its targets already referred to) that exists and authorizes it, and each of its
\* attachable targets refers to a queue that exists.
C5_ReconcileCoverage ==
    (pc = "done" /\ last.kind = "reconcile" /\ ~last.dry_run /\ AllOk(last.calls))
        => \A R \in LiveNames \ last.skip_rules :
               /\ \E q \in DOMAIN queues :
                      /\ \/ q = generate_dlq_name(R, envPrefix)
                         \/ \E i \in 1..Len(targets[R]) :
                                /\ HasDlq(targets[R][i])
                                /\ targets[R][i]["DeadLetterConfig"].Arn = QueueArn(q)
                      /\ Authorizes(queues, q, R)
               /\ \A i \in 1..Len(targets[R]) :
                      ~NotAttachable(targets[R][i])
                          => /\ HasDlq(targets[R][i])
                             /\ \E q \in DOMAIN queues :
                                    targets[R][i]["DeadLetterConfig"].Arn = QueueArn(q)

\* C6: whenever the system rewrites a target, the target keeps its id, its destination
\* and every other field but the dead-letter one, with the same values.
C6_FieldsPreserved ==
    [][\A r \in DOMAIN targets \cap DOMAIN targets' :
           \A i \in 1..Len(targets[r]) :
               LET t == targets[r][i]
                   u == targets'[r][i]
               IN  /\ DOMAIN t \ {"DeadLetterConfig"} = DOMAIN u \ {"DeadLetterConfig"}
                   /\ \A k \in DOMAIN t \ {"DeadLetterConfig"} : t[k] = u[k]]_vars

\* C7: an invocation with dryRun true issues no create_queue, set_queue_attributes,
\* put_targets or delete_queue call and leaves queues, policies and targets as they
\* were; reconcile reports "would_create" for every rule it does not skip and an
\* orphan cleanup with no queue and a count of 0; teardown records only
\* "would_delete" actions and a deleted_count of 0.
C7_DryRunNoMutation ==
    [][(Completes /\ last'.dry_run)
       => /\ targets' = targets
          /\ queues' = queues
          /\ \A i \in 1..Len(last'.calls) : last'.calls[i].op \notin MutatingOps
          /\ last'.kind = "reconcile"
                 => /\ \A i \in 1..Len(last'.operations) :
                           last'.operations[i].status = "would_create"
                    /\ {last'.operations[i].rule_name : i \in 1..Len(last'.operations)}
                           = LiveNames \ last'.skip_rules
                    /\ last'.orphaned_cleanup = [orphaned_queues |-> <<>>, deleted_count |-> 0]
          /\ last'.kind = "teardown"
                 => /\ \A k \in 1..Len(last'.deleted_queues) :
                           last'.deleted_queues[k].action = "would_delete"
                    /\ last'.deleted_count = 0]_vars

\* a dry-run reconcile has reported on a rule while a queue that orphan cleanup would
\* delete exists
C7_Witness ==
    /\ pc = "done"
    /\ last.kind = "reconcile"
    /\ last.dry_run
    /\ last.operations # <<>>
    /\ \E q \in DOMAIN queues :
           ExtractedRuleNames(q) # {} /\ ExtractedRuleNames(q) \cap LiveNames = {}

\* C8: orphan cleanup never lists as orphaned and never deletes a queue whose
\* extracted rule name is the name of a rule on the bus that is not managed, whether
\* or not that rule is in skipRules.
C8_LiveNameKept ==
    (pc = "done" /\ last.kind = "reconcile")
        => /\ \A k \in 1..Len(last.orphaned_cleanup.orphaned_queues) :
                  ExtractedRuleNames(last.orphaned_cleanup.orphaned_queues[k].queue_name)
                      \cap LiveNames = {}
           /\ \A i \in 1..Len(last.calls) :
                  last.calls[i].op = "delete_queue"
                      => ExtractedRuleNames(last.calls[i].queue) \cap LiveNames = {}

\* orphan cleanup has run over a queue whose extracted name is a live rule in
\* skipRules, and the queue is still there
C8_Witness ==
    /\ pc = "done"
    /\ last.kind = "reconcile"
    /\ ~last.dry_run
    /\ AllOk(last.calls)
    /\ RULE_A \in LiveNames \cap last.skip_rules
    /\ \E q \in DOMAIN queues : ExtractedRuleNames(q) = {RULE_A}

\* C9: with a non-empty prefix, when the queue reconcile provisioned for a rule R
\* exists and R is no longer on the bus, a non-dry-run reconcile pass in which no
\* collaborator call fails lists the queue as orphaned with action "deleted", counts
\* it in deleted_count, and the queue is gone after the pass.
C9_OrphansRemoved ==
    [][(/\ Completes
        /\ last'.kind = "reconcile"
        /\ ~last'.dry_run
        /\ AllOk(last'.calls)
        /\ envPrefix # <<>>)
       => \A R \in RuleNames \ DOMAIN rules :
              LET q == generate_dlq_name(R, envPrefix)
                  listed == last'.orphaned_cleanup.orphaned_queues
              IN  (q \in DOMAIN queues /\ Authorizes(queues, q, R))
                      => /\ q \notin DOMAIN queues'
                         /\ \E k \in 1..Len(listed) :
                                listed[k].queue_name = q /\ listed[k].action = "deleted"
                         /\ last'.orphaned_cleanup.deleted_count >= 1]_vars

\* the derived name holds the rule name whole
Untruncated == codec.out = codec.P \o <<"-">> \o codec.R \o SUFFIX

\* C11: for every non-empty prefix and every rule name that has no hyphen and is not
\* truncated, the rule name list_all_dlq_queues extracts from the derived queue name is
\* the rule name itself.
C11_RoundTrip ==
    (codec.pc = "out" /\ codec.P # <<>> /\ Count(codec.R, "-") = 0 /\ Untruncated)
        => codec.recovered = {codec.R}

\* the queue name is one the specified recovery accepts: at least 4 segments, the last
\* two being "rule" and "dlq"
Accepted(parts) ==
    /\ Len(parts) >= 4
    /\ parts[Len(parts) - 1] = RULE_TOKEN
    /\ parts[Len(parts)] = DLQ_TOKEN

\* C20: for every queue name, a rule name is extracted only if the name has at least 4
\* hyphen-delimited segments of which the last two are "rule" and "dlq", and the name
\* extracted is then the segments between the first one and that final "rule", joined
\* with hyphens; from every other queue name nothing is extracted.
C20_RecoverAcceptance ==
    (codec.pc = "extracted" /\ codec.recovered # {})
        => LET parts == Split(codec.out, "-")
           IN  /\ Accepted(parts)
               /\ codec.recovered = {Join(SubSeq(parts, 2, Len(parts) - 2), "-")}

\* the statements of a stored Policy attribute
StatementsOf(stored) ==
    IF stored.state = "document"
    THEN {stored.doc.Statement[i] : i \in 1..Len(stored.doc.Statement)} ELSE {}

\* C17: a call of update_queue_policy in which the read of the current policy or the
\* write of the new one fails returns false, and after a call whose read failed every
\* statement the stored policy held before the call is still in it.
C17_FailsClosed ==
    pol.pc = "called"
        => /\ (pol.read_failed \/ pol.write_failed) => ~pol.returned
           /\ pol.read_failed => StatementsOf(pol.before) \subseteq StatementsOf(pol.stored)

\* the rules a pass with these skip_rules works on
Worked(skip_rules) == LiveNames \ skip_rules

\* the targets of rule R that attach_dlq_to_targets does not pass over for their destination
Attachable(ts) == {i \in 1..Len(ts) : ~NotAttachable(ts[i])}

PROD_ORDER_EVENTS_DLQ ==
    <<"p", "r", "o", "d", "-", "o", "r", "d", "e", "r", "-", "e", "v", "e", "n", "t", "s",
      "-", "r", "u", "l", "e", "-", "d", "l", "q">>

\* the bus holds one rule to work on, R, with exactly one attachable target, which has
\* no dead-letter reference, and the queue named for R does not exist
FirstPass(R, skip_rules) ==
    /\ Worked(skip_rules) = {R}
    /\ Cardinality(Attachable(targets[R])) = 1
    /\ \A i \in Attachable(targets[R]) : ~HasDlq(targets[R][i])
    /\ generate_dlq_name(R, envPrefix) \notin DOMAIN queues

\* what the pass that has just completed returns and leaves for such a rule
FirstPassOutcome(R) ==
    /\ last'.queues_created = 1
    /\ last'.policies_updated = 1
    /\ last'.targets_attached = 1
    /\ Len(last'.operations) = 1
    /\ last'.operations[1].rule_name = R
    /\ last'.operations[1].status = "updated"
    /\ (R = RULE_A /\ envPrefix = PROD)
           => /\ last'.operations[1].dlq_name = PROD_ORDER_EVENTS_DLQ
              /\ PROD_ORDER_EVENTS_DLQ \in DOMAIN queues'
              /\ Authorizes(queues', PROD_ORDER_EVENTS_DLQ, R)
              /\ \A i \in Attachable(targets'[R]) :
                     /\ HasDlq(targets'[R][i])
                     /\ targets'[R][i]["DeadLetterConfig"].Arn
                            = QueueArn(PROD_ORDER_EVENTS_DLQ)

LiveDlq(ts, qs) ==
    \E i \in 1..Len(ts) :
        HasDlq(ts[i]) /\ Last(Split(ts[i]["DeadLetterConfig"].Arn, ":")) \in DOMAIN qs

\* the calls of the pass that create the queue, write the policy or put targets for R
ProvisioningCalls(calls, R) ==
    {i \in 1..Len(calls) :
        calls[i].rule = R
        /\ calls[i].op \in {"create_queue", "set_queue_attributes", "put_targets"}}

\* C13: a non-dry-run reconcile pass reports every rule that is neither managed nor
\* skipped; it reports the rule as "skipped" with reason "dlq_exists" exactly when one of
\* the rule's targets has a dead-letter reference to a queue that exists, and then
\* makes no create_queue, set_queue_attributes or put_targets call for the rule and
\* reports queue_created false, policy_updated false and targets_updated 0; otherwise
\* the status is "updated" when the queue was created or a target was updated, and
\* "no_change" when not.
C13_ShortCircuit ==
    [][(Completes /\ last'.kind = "reconcile" /\ ~last'.dry_run)
       => /\ {last'.operations[k].rule_name : k \in 1..Len(last'.operations)}
                 = Worked(last'.skip_rules)
          /\ \A k \in 1..Len(last'.operations) :
                 LET op == last'.operations[k]
                     live == LiveDlq(targets[op.rule_name], queues)
                 IN  /\ (op.status = "skipped" /\ op.reason = "dlq_exists") <=> live
                     /\ live => /\ ProvisioningCalls(last'.calls, op.rule_name) = {}
                                /\ ~op.queue_created
                                /\ ~op.policy_updated
                                /\ op.targets_updated = 0
                     /\ ~live => op.status = IF op.queue_created \/ op.targets_updated > 0
                                             THEN "updated" ELSE "no_change"]_vars

\* C14: for every rule that is managed or named in skipRules, reconcile counts the rule
\* in rules_skipped and emits no operation for it, teardown does not record it in
\* deleted_queues, neither makes a create_queue, set_queue_attributes, put_targets or
\* delete_queue call for it, and the rule's targets and the queue of its derived name
\* are after the invocation what they were before.
C14_SkippedUntouched ==
    [][(Completes /\ last'.kind \in {"reconcile", "teardown"})
       => LET Left == {R \in DOMAIN rules : IsManaged(rules[R]) \/ R \in last'.skip_rules}
          IN  /\ last'.kind = "reconcile"
                     => /\ last'.rules_skipped = Cardinality(Left)
                        /\ \A k \in 1..Len(last'.operations) :
                               last'.operations[k].rule_name \notin Left
              /\ last'.kind = "teardown"
                     => \A k \in 1..Len(last'.deleted_queues) :
                            last'.deleted_queues[k].rule_name \notin Left
              /\ \A R \in Left :
                     LET q == generate_dlq_name(R, envPrefix)
                     IN  /\ \A i \in 1..Len(last'.calls) :
                                 last'.calls[i].rule = R
                                     => last'.calls[i].op \notin MutatingOps
                         /\ targets'[R] = targets[R]
                         /\ q \in DOMAIN queues <=> q \in DOMAIN queues'
                         /\ q \in DOMAIN queues => queues'[q] = queues[q]]_vars

\* C15: after an invocation that deleted a queue, in teardown or in orphan cleanup, no
\* target of a rule on the bus refers to that queue.
C15_DetachBeforeDelete ==
    (pc = "done" /\ ~last.dry_run)
        => \A i \in 1..Len(last.calls) :
               (last.calls[i].op = "delete_queue" /\ last.calls[i].ok)
                   => \A R \in DOMAIN targets :
                          \A k \in 1..Len(targets[R]) :
                              HasDlq(targets[R][k])
                                  => targets[R][k]["DeadLetterConfig"].Arn
                                         # QueueArn(last.calls[i].queue)

\* C16: a non-dry-run invocation fails only when listing the rules of the bus failed:
\* no other collaborator failure keeps the pass from returning its summary.
C16_FailureIsolation ==
    (pc = "done" /\ ~last.dry_run /\ last.kind = "error")
        => \E i \in 1..Len(last.calls) :
               last.calls[i].op = "list_rules" /\ ~last.calls[i].ok

\* C18: an invocation in which listing the rules or listing a rule's targets failed
\* fails, and after a failed listing of a rule's targets no queue is created and no
\* policy is written for that rule.
C18_ListingFailuresPropagate ==
    pc = "done"
        => \A i \in 1..Len(last.calls) :
               (last.calls[i].op \in {"list_rules", "list_targets"} /\ ~last.calls[i].ok)
                   => /\ last.kind = "error"
                      /\ \A j \in (i + 1)..Len(last.calls) :
                             last.calls[j].rule = last.calls[i].rule
                                 => last.calls[j].op
                                        \notin {"create_queue", "set_queue_attributes"}

\* C19: orphan cleanup deletes no queue that holds visible or in-flight messages, and
\* does not count such a queue in deleted_count.
C19_OrphanGuard ==
    (pc = "done" /\ last.kind = "reconcile")
        => \A i \in 1..Len(last.calls) :
               (last.calls[i].op = "delete_queue" /\ last.calls[i].count > 0)
                   => /\ ~last.calls[i].ok
                      /\ last.orphaned_cleanup.deleted_count = 0

\* no stored policy holds two statements of the same (principal, action, source ARN)
PoliciesUnique == \A q \in DOMAIN queues : Unique(queues[q].policy.doc.Statement)

\* the policy of the queue of every provisioned rule holds the rule's statement
StatementsKept ==
    \A R \in ProvisionedRules :
        generate_dlq_name(R, envPrefix) \in DOMAIN queues
            => Authorizes(queues, generate_dlq_name(R, envPrefix), R)

\* C21: while two reconcile passes that are not dry runs run over the same bus with
\* their collaborator calls interleaved in any order, every stored policy holds at most
\* one statement per (principal, action, source-rule-ARN condition), and once both
\* passes have finished the policy of the queue of every rule they provisioned, where
\* that queue exists, still holds the statement for that rule's ARN.
C21_ConcurrentPasses == PoliciesUnique /\ (Finished => StatementsKept)

====
